---- MODULE Spec2Model ----
(***************************************************************************)
(* Model of the OTP engine (app/services/otp.py), the invite redemption    *)
(* handler (app/api/auth.py) and the token issuer/verifier                 *)
(* (app/core/security.py) of the store-management backend.                 *)
(*                                                                         *)
(* The record store is the remote table service behind app/db/supabase.py: *)
(* a table is a sequence of rows, a row's id is its position, select_one   *)
(* returns any one of the matching rows (the query carries no ORDER BY).   *)
(* Time is counted in minutes.                                             *)
(***************************************************************************)
EXTENDS Integers, Sequences, FiniteSets, TLC

VARIABLES now,      \* the clock, minutes
          otps,     \* table otp_verifications
          last,     \* the outcome of the latest OTP service call
          track,    \* history of the latest generate_otp call
          invites,  \* table invites
          users,    \* table users
          reqs,     \* the invite-signup requests in flight
          tokIn,    \* the claims bundle handed to the token issuer
          tok,      \* the token in the caller's hands
          tokOut,   \* the result of the latest verify_token call
          resp,     \* the HTTP response to the latest request
          gens,     \* the overlapping generate_otp calls in flight
          cap,      \* the number of rows otp_verifications may hold in a run
          sess,     \* the bearer token each client holds
          vers,     \* the overlapping verify_otp calls in flight
          mail      \* the email the latest background task has to deliver

vars == <<now, otps, last, track, invites, users, reqs, tokIn, tok, tokOut,
          resp, gens, cap, sess, vers, mail>>
otpVars == <<otps, last>>
inviteVars == <<invites, users, reqs>>
tokenVars == <<tokIn, tok, tokOut>>
flowVars == <<resp, gens, cap, sess>>
bgVars == <<vers, mail>>

----------------------------------------------------------------------------
(* Settings (app/core/config.py) and literals of the code *)

OTP_EXPIRE_MINUTES == 10
OTP_MAX_ATTEMPTS == 3
OTP_COOLDOWN_MINUTES == 5
OTP_REUSE_MINUTES == 2
ACCESS_TOKEN_EXPIRE_MINUTES == 30
INVITE_EXPIRE_DAYS == 7
REFRESH_TOKEN_EXPIRE_DAYS == 7
RESET_TOKEN_EXPIRE_HOURS == 2
DAY_MINUTES == 24 * 60

(* Bounds of the model *)

MaxTime == 12
TickStep == 4
MaxRecords == 2
NumRequests == 2
MaxInvites == 2
MaxDays == 8
TickDays == 4
MaxTokenTime == 40
TokenTick == 20
WideTick == 6
WideMaxTime == 6
NumCalls == 2
NumClients == 2
NumVerifies == 4

None == -1

----------------------------------------------------------------------------
(* Inputs *)

RawEmails == {" A@X.com "}
Purposes == {"verification", "password_reset"}
Codes == {"111111", "222222"}

\* email.lower()
Lower(e) == IF e = " A@X.com " THEN " a@x.com "
            ELSE IF e = "A@X.com" THEN "a@x.com" ELSE e

\* email.strip()
Strip(e) == IF e = " a@x.com " THEN "a@x.com"
            ELSE IF e = " A@X.com " THEN "A@X.com" ELSE e

\* email.lower().strip()
NormalizeEmail(e) == Strip(Lower(e))

----------------------------------------------------------------------------
(* The record store *)

\* the ids of the rows of a table, over which select_one and select_all
\* apply their equality filters
RowIds(table) == 1..Len(table)

\* update_one whose filter matches no row
UpdateOneNoMatch(table, i, patch) == table

\* update_one(table, {id: i}, patch): patch is a function on some columns
UpdateOne(table, i, patch) ==
    [table EXCEPT ![i] = [c \in DOMAIN @ |->
                            IF c \in DOMAIN patch THEN patch[c] ELSE @[c]]]

\* insert_one as an upsert on the live row of the email and purpose
InsertOneUpsert(table, row) ==
    LET live == {i \in RowIds(table) :
                    /\ table[i].email = row.email
                    /\ table[i].purpose = row.purpose
                    /\ ~table[i].is_used /\ ~table[i].is_expired}
    IN  IF live = {} THEN Append(table, row)
        ELSE [table EXCEPT ![CHOOSE i \in live : TRUE] = row]

\* insert_one(table, row)
InsertOne(table, row) == Append(table, row)

----------------------------------------------------------------------------
(* What the callers of the OTP service see and remember *)

\* what the caller of the OTP service saw of its latest call
Call(op, purpose, code, sel, outcome, remaining) ==
    [op |-> op, purpose |-> purpose, code |-> code, sel |-> sel,
     outcome |-> outcome, remaining |-> remaining]

NoCall == Call("none", "", "", 0, "none", None)

NoTrack == [id |-> 0, clean |-> FALSE, wrong |-> 0, tried |-> FALSE]

\* no request answered yet
Response(op, client, status, detail, user) ==
    [op |-> op, client |-> client, status |-> status, detail |-> detail,
     user |-> user]

NoResponse == Response("none", 0, 0, "", 0)

\* a generate_otp call that has not started: its position, its arguments,
\* its local variables existing_otp and old_otps (todo: the rows of old_otps
\* its loop has yet to update), the row it inserted and what it returned
NoGenCall == [pc |-> "idle", email |-> "", purpose |-> "", code |-> "",
              existing |-> 0, old_otps |-> {}, todo |-> {}, row |-> 0,
              outcome |-> ""]

IdleCalls == [c \in 1..NumCalls |-> NoGenCall]

\* a verify_otp call that has not started: its position, its arguments, the
\* row select_one returned to it with the attempts it read, and its result
NoVerifyCall == [pc |-> "idle", purpose |-> "", code |-> "", row |-> 0,
                 otp |-> "", attempts |-> 0, until |-> None,
                 outcome |-> "", remaining |-> None]

IdleVerifies == [v \in 1..NumVerifies |-> NoVerifyCall]

\* no email handed to a background task yet
NoMail == [to |-> "", about |-> "", body |-> "", state |-> "none"]

\* background_tasks.add_task(send, to, ...): the email waits to be sent
Queued(to, about, body) ==
    [to |-> to, about |-> about, body |-> body, state |-> "queued"]

----------------------------------------------------------------------------
(* Token issuer and verifier (app/core/security.py).  A Python value is a  *)
(* record with its type; a token is its payload and the key that signed    *)
(* it; jwt.decode accepts a token signed with APP_SECRET_KEY whose exp has *)
(* not passed.                                                             *)

PyInt(n) == [kind |-> "int", n |-> n, s |-> ""]
PyStr(x) == [kind |-> "str", n |-> 0, s |-> x]
PyBool(b) == [kind |-> "bool", n |-> IF b THEN 1 ELSE 0, s |-> ""]
PyNone == [kind |-> "none", n |-> 0, s |-> ""]

\* str(v)
PyStrOf(v) ==
    CASE v.kind = "int" -> PyStr(ToString(v.n))
      [] v.kind = "str" -> v
      [] v.kind = "bool" -> PyStr(IF v.n = 1 THEN "True" ELSE "False")
      [] OTHER -> PyStr("None")

\* bool(v), the truth value all() tests
Truthy(v) ==
    CASE v.kind = "int" -> v.n # 0
      [] v.kind = "str" -> v.s # ""
      [] v.kind = "bool" -> v.n = 1
      [] OTHER -> FALSE

\* s.lower() == 'true' on the strings of the model
LowerIsTrue(x) == x \in {"true", "True", "TRUE"}

APP_SECRET_KEY == "app-secret"
ISSUER == "store-management-system"

IdValues == {PyInt(0), PyInt(7), PyStr("7"), PyStr(""), PyNone}
EmailValues == {PyStr("a@x.com"), PyStr("")}
AdminValues == {PyBool(TRUE), PyBool(FALSE), PyNone, PyStr("false")}
TokenTypes == {"access", "refresh"}

Bundles == [user_id : IdValues, email : EmailValues, branch_id : IdValues,
            is_admin : AdminValues]

NoBundle == [user_id |-> PyNone, email |-> PyNone, branch_id |-> PyNone,
             is_admin |-> PyNone]

NoToken == [key |-> "", user_id |-> PyNone, email |-> PyNone,
            branch_id |-> PyNone, is_admin |-> PyNone, sub |-> PyNone,
            exp |-> 0, type |-> "", iss |-> ""]

\* a string that is not three base64 segments: no payload, nothing signed it
Malformed == [NoToken EXCEPT !.key = "unsigned"]

\* no client has logged in
NoSessions == [c \in 1..NumClients |-> NoToken]

\* a key that is not APP_SECRET_KEY
FORGED_KEY == "forged-key"

NoResult == [kind |-> "none", expected |-> "", user_id |-> "", email |-> "",
             branch_id |-> "", is_admin |-> FALSE]

\* what verify_token returns as None
Null(expected) == [NoResult EXCEPT !.kind = "null", !.expected = expected]

\* create_access_token(data)
CreateAccessToken(data) ==
    [key |-> APP_SECRET_KEY, user_id |-> data.user_id, email |-> data.email,
     branch_id |-> data.branch_id,
     is_admin |-> PyBool(Truthy(data.is_admin)), sub |-> PyNone,
     exp |-> now + ACCESS_TOKEN_EXPIRE_MINUTES, type |-> "access",
     iss |-> ISSUER]

\* create_refresh_token({"user_id": ...})
CreateRefreshToken(data) ==
    [key |-> APP_SECRET_KEY, user_id |-> data.user_id, email |-> PyNone,
     branch_id |-> PyNone, is_admin |-> PyNone, sub |-> PyNone,
     exp |-> now + REFRESH_TOKEN_EXPIRE_DAYS * DAY_MINUTES,
     type |-> "refresh", iss |-> ISSUER]

\* create_reset_token(email)
CreateResetToken(email) ==
    [key |-> APP_SECRET_KEY, user_id |-> PyNone, email |-> PyNone,
     branch_id |-> PyNone, is_admin |-> PyNone, sub |-> email,
     exp |-> now + RESET_TOKEN_EXPIRE_HOURS * 60,
     type |-> "password_reset", iss |-> ISSUER]

\* jwt.decode raises JWTError: not a token, bad signature or exp passed
DecodeFails(t) == t.key # APP_SECRET_KEY \/ t.exp < now

\* TokenData's validator of user_id and branch_id
CoerceToStr(v) == IF v.kind = "none" THEN PyStr("") ELSE PyStrOf(v)

\* verify_token reading branch_id from the user_id claim
VerifyTokenOneId(t, expected) ==
    IF DecodeFails(t) THEN Null(expected)
    ELSE IF t.type # expected THEN Null(expected)
    ELSE LET user_id == IF t.user_id.kind # "none"
                        THEN PyStrOf(t.user_id) ELSE PyNone
             branch_id == IF t.user_id.kind # "none"
                          THEN PyStrOf(t.user_id) ELSE PyNone
             is_admin == IF t.is_admin.kind = "str"
                         THEN LowerIsTrue(t.is_admin.s)
                         ELSE Truthy(t.is_admin)
         IN  IF ~(Truthy(user_id) /\ Truthy(t.email) /\ Truthy(branch_id))
             THEN Null(expected)
             ELSE [kind |-> "claims", expected |-> expected,
                   user_id |-> CoerceToStr(user_id).s, email |-> t.email.s,
                   branch_id |-> CoerceToStr(branch_id).s,
                   is_admin |-> is_admin]

\* verify_token without the type guard
VerifyTokenAnyType(t, expected) ==
    IF DecodeFails(t) THEN Null(expected)
    ELSE LET user_id == IF t.user_id.kind # "none"
                        THEN PyStrOf(t.user_id) ELSE PyNone
             branch_id == IF t.branch_id.kind # "none"
                          THEN PyStrOf(t.branch_id) ELSE PyNone
             is_admin == IF t.is_admin.kind = "str"
                         THEN LowerIsTrue(t.is_admin.s)
                         ELSE Truthy(t.is_admin)
         IN  IF ~(Truthy(user_id) /\ Truthy(t.email) /\ Truthy(branch_id))
             THEN Null(expected)
             ELSE [kind |-> "claims", expected |-> expected,
                   user_id |-> CoerceToStr(user_id).s, email |-> t.email.s,
                   branch_id |-> CoerceToStr(branch_id).s,
                   is_admin |-> is_admin]

\* verify_token whose except clause lets a signature error through
VerifyTokenNarrowExcept(t, expected) ==
    IF t.key = FORGED_KEY
    THEN [NoResult EXCEPT !.kind = "raise", !.expected = expected]
    ELSE IF DecodeFails(t) THEN Null(expected)
    ELSE IF t.type # expected THEN Null(expected)
    ELSE LET user_id == IF t.user_id.kind # "none"
                        THEN PyStrOf(t.user_id) ELSE PyNone
             branch_id == IF t.branch_id.kind # "none"
                          THEN PyStrOf(t.branch_id) ELSE PyNone
             is_admin == IF t.is_admin.kind = "str"
                         THEN LowerIsTrue(t.is_admin.s)
                         ELSE Truthy(t.is_admin)
         IN  IF ~(Truthy(user_id) /\ Truthy(t.email) /\ Truthy(branch_id))
             THEN Null(expected)
             ELSE [kind |-> "claims", expected |-> expected,
                   user_id |-> CoerceToStr(user_id).s, email |-> t.email.s,
                   branch_id |-> CoerceToStr(branch_id).s,
                   is_admin |-> is_admin]

\* verify_token(token, expected_type)
VerifyToken(t, expected) ==
    IF DecodeFails(t) THEN Null(expected)
    ELSE IF t.type # expected THEN Null(expected)
    ELSE LET user_id == IF t.user_id.kind # "none"
                        THEN PyStrOf(t.user_id) ELSE PyNone
             branch_id == IF t.branch_id.kind # "none"
                          THEN PyStrOf(t.branch_id) ELSE PyNone
             is_admin == IF t.is_admin.kind = "str"
                         THEN LowerIsTrue(t.is_admin.s)
                         ELSE Truthy(t.is_admin)
         IN  IF ~(Truthy(user_id) /\ Truthy(t.email) /\ Truthy(branch_id))
             THEN Null(expected)
             ELSE [kind |-> "claims", expected |-> expected,
                   user_id |-> CoerceToStr(user_id).s, email |-> t.email.s,
                   branch_id |-> CoerceToStr(branch_id).s,
                   is_admin |-> is_admin]

\* verify_reset_token(token)
\* verify_reset_token decoding the token without verifying its signature
VerifyResetTokenUnsigned(t) ==
    IF t.key = "unsigned" \/ t.exp < now THEN Null("password_reset")
    ELSE IF t.type # "password_reset" THEN Null("password_reset")
    ELSE IF t.sub.kind = "none" THEN Null("password_reset")
    ELSE [NoResult EXCEPT !.kind = "email", !.expected = "password_reset",
                          !.email = t.sub.s]

VerifyResetToken(t) ==
    IF DecodeFails(t) THEN Null("password_reset")
    ELSE IF t.type # "password_reset" THEN Null("password_reset")
    ELSE IF t.sub.kind = "none" THEN Null("password_reset")
    ELSE [NoResult EXCEPT !.kind = "email", !.expected = "password_reset",
                          !.email = t.sub.s]

IssueAccess ==
    /\ tok' = CreateAccessToken(tokIn)
    /\ UNCHANGED <<now, otpVars, track, inviteVars, tokIn, tokOut, flowVars,
                   bgVars>>

IssueRefresh ==
    /\ tok' = CreateRefreshToken(tokIn)
    /\ UNCHANGED <<now, otpVars, track, inviteVars, tokIn, tokOut, flowVars,
                   bgVars>>

IssueReset ==
    /\ tok' = CreateResetToken(tokIn.email)
    /\ UNCHANGED <<now, otpVars, track, inviteVars, tokIn, tokOut, flowVars,
                   bgVars>>

\* the caller re-signs the token it holds with a key of its own
Forge ==
    /\ tok.key = APP_SECRET_KEY
    /\ tok' = [tok EXCEPT !.key = FORGED_KEY]
    /\ UNCHANGED <<now, otpVars, track, inviteVars, tokIn, tokOut, flowVars,
                   bgVars>>

\* the caller presents a string that is not a token
Garble ==
    /\ tok' = Malformed
    /\ UNCHANGED <<now, otpVars, track, inviteVars, tokIn, tokOut, flowVars,
                   bgVars>>

VerifyResetCall ==
    /\ tok # NoToken
    /\ tokOut' = VerifyResetToken(tok)
    /\ UNCHANGED <<now, otpVars, track, inviteVars, tokIn, tok, flowVars,
                   bgVars>>

VerifyCall ==
    /\ tok # NoToken
    /\ \E expected \in TokenTypes : tokOut' = VerifyToken(tok, expected)
    /\ UNCHANGED <<now, otpVars, track, inviteVars, tokIn, tok, flowVars,
                   bgVars>>

TickToken ==
    /\ now + TokenTick <= MaxTokenTime
    /\ now' = now + TokenTick
    /\ UNCHANGED <<otpVars, track, inviteVars, tokenVars, flowVars, bgVars>>

InitToken ==
    /\ now = 0
    /\ otps = <<>>
    /\ last = NoCall
    /\ track = NoTrack
    /\ invites = <<>>
    /\ users = <<>>
    /\ reqs = <<>>
    /\ tokIn \in Bundles
    /\ tok = NoToken
    /\ tokOut = NoResult
    /\ resp = NoResponse
    /\ gens = IdleCalls
    /\ cap = MaxRecords
    /\ sess = NoSessions
    /\ vers = IdleVerifies
    /\ mail = NoMail

NextToken ==
    \/ IssueAccess \/ IssueRefresh \/ IssueReset \/ Forge \/ Garble
    \/ VerifyCall \/ VerifyResetCall \/ TickToken

SpecToken == InitToken /\ [][NextToken]_vars

----------------------------------------------------------------------------
(* OTP engine *)

\* update_one applied to each row of a set in turn
RECURSIVE UpdateEach(_, _, _)
UpdateEach(table, ids, patch) ==
    IF ids = {} THEN table
    ELSE LET i == CHOOSE x \in ids : TRUE
         IN  UpdateEach(UpdateOne(table, i, patch), ids \ {i}, patch)

\* _cleanup_old_otps without the is_used filter of its listing
CleanupOldOtpsAnyRow(table, email) ==
    UpdateEach(table,
               {i \in RowIds(table) : table[i].email = Lower(email)},
               [is_expired |-> TRUE])

\* _cleanup_old_otps with a listing that finds no row
CleanupOldOtpsNoRow(table, email) == table

\* _cleanup_old_otps: every unused row of the email is marked expired
CleanupOldOtps(table, email) ==
    UpdateEach(table,
               {i \in RowIds(table) :
                   table[i].email = Lower(email) /\ ~table[i].is_used},
               [is_expired |-> TRUE])

\* _check_cooldown, given the locked row select_one returned (0: none)
InCooldown(table, i) ==
    /\ i # 0
    /\ table[i].locked_until # None
    /\ now < table[i].locked_until

\* the rows select_one may return to _check_cooldown
LockedRows(table, email) ==
    LET found == {i \in RowIds(table) :
                     table[i].email = Lower(email) /\ table[i].is_locked}
    IN  IF found = {} THEN {0} ELSE found

\* the row generate_otp inserts
NewOtp(email, purpose, code) ==
    [email |-> email, otp |-> code, purpose |-> purpose,
     expires_at |-> now + OTP_EXPIRE_MINUTES, attempts |-> 0,
     is_used |-> FALSE, is_expired |-> FALSE, is_locked |-> FALSE,
     locked_until |-> None]

\* generate_otp after the reuse check, on the table st
GenerateFresh(st, email, purpose, code) ==
    \E k \in LockedRows(st, email) :
        IF InCooldown(st, k)
        THEN /\ otps' = st
             /\ last' = Call("generate", purpose, "", 0, "rate_limited", None)
        ELSE /\ Len(st) < cap
             /\ otps' = InsertOne(CleanupOldOtps(st, email),
                                  NewOtp(email, purpose, code))
             /\ last' = Call("generate", purpose, code, Len(st) + 1, "fresh",
                             None)

\* the rows select_one may return to generate_otp's lookup of the live row
LiveRows(table, email, purpose) ==
    {i \in RowIds(table) :
        /\ table[i].email = email /\ table[i].purpose = purpose
        /\ ~table[i].is_used /\ ~table[i].is_expired}

\* the reuse test with the operands of the subtraction swapped
ReusableSwapped(row) == now - row.expires_at > OTP_REUSE_MINUTES

\* the reuse test of generate_otp
Reusable(row) == row.expires_at - now > OTP_REUSE_MINUTES

\* generate_otp(email, purpose): the table and what the caller gets
GenerateOtp(raw, purpose, code) ==
    LET email == NormalizeEmail(raw) IN
    /\ IF LiveRows(otps, email, purpose) = {}
       THEN GenerateFresh(otps, email, purpose, code)
       ELSE \E i \in LiveRows(otps, email, purpose) :
               IF Reusable(otps[i])
               THEN /\ otps' = otps
                    /\ last' = Call("generate", purpose, otps[i].otp, i,
                                    "reused", None)
               ELSE GenerateFresh(UpdateOne(otps, i, [is_expired |-> TRUE]),
                                  email, purpose, code)

\* the rows select_one may return to verify_otp
UnusedRows(table, email, purpose) ==
    {i \in RowIds(table) :
        /\ table[i].email = email /\ table[i].purpose = purpose
        /\ ~table[i].is_used}

\* verify_otp counting the attempt before it looks at expires_at
VerifyRowCountFirst(table, i, code) ==
    LET attempts == table[i].attempts + 1
        counted == UpdateOne(table, i, [attempts |-> attempts])
    IN
    IF attempts > OTP_MAX_ATTEMPTS
    THEN [table |-> UpdateOne(table, i,
                       [is_locked |-> TRUE,
                        locked_until |-> now + OTP_COOLDOWN_MINUTES]),
          outcome |-> "locked", remaining |-> None]
    ELSE IF now > table[i].expires_at
    THEN [table |-> UpdateOne(counted, i, [is_expired |-> TRUE]),
          outcome |-> "expired", remaining |-> None]
    ELSE IF table[i].otp # code
    THEN [table |-> counted,
          outcome |-> "invalid", remaining |-> OTP_MAX_ATTEMPTS - attempts]
    ELSE [table |-> UpdateOne(counted, i, [is_used |-> TRUE]),
          outcome |-> "success", remaining |-> None]

\* verify_otp comparing the codes before it stores the attempt
VerifyRowCompareFirst(table, i, code) ==
    LET attempts == table[i].attempts + 1 IN
    IF now > table[i].expires_at
    THEN [table |-> UpdateOne(table, i, [is_expired |-> TRUE]),
          outcome |-> "expired", remaining |-> None]
    ELSE IF attempts > OTP_MAX_ATTEMPTS
    THEN [table |-> UpdateOne(table, i,
                       [is_locked |-> TRUE,
                        locked_until |-> now + OTP_COOLDOWN_MINUTES]),
          outcome |-> "locked", remaining |-> None]
    ELSE IF table[i].otp # code
    THEN [table |-> table,
          outcome |-> "invalid", remaining |-> OTP_MAX_ATTEMPTS - attempts]
    ELSE [table |-> UpdateOne(UpdateOne(table, i, [attempts |-> attempts]),
                              i, [is_used |-> TRUE]),
          outcome |-> "success", remaining |-> None]

\* the table and the outcome of verify_otp once select_one returned row i
VerifyRow(table, i, code) ==
    LET attempts == table[i].attempts + 1 IN
    IF now > table[i].expires_at
    THEN [table |-> UpdateOne(table, i, [is_expired |-> TRUE]),
          outcome |-> "expired", remaining |-> None]
    ELSE IF attempts > OTP_MAX_ATTEMPTS
    THEN [table |-> UpdateOne(table, i,
                       [is_locked |-> TRUE,
                        locked_until |-> now + OTP_COOLDOWN_MINUTES]),
          outcome |-> "locked", remaining |-> None]
    ELSE IF table[i].otp # code
    THEN [table |-> UpdateOne(table, i, [attempts |-> attempts]),
          outcome |-> "invalid", remaining |-> OTP_MAX_ATTEMPTS - attempts]
    ELSE [table |-> UpdateOne(UpdateOne(table, i, [attempts |-> attempts]),
                              i, [is_used |-> TRUE]),
          outcome |-> "success", remaining |-> None]

\* verify_otp(email, otp, purpose): the table and what the caller gets
VerifyOtp(raw, code, purpose) ==
    LET email == NormalizeEmail(raw) IN
    /\ IF UnusedRows(otps, email, purpose) = {}
       THEN /\ otps' = otps
            /\ last' = Call("verify", purpose, code, 0, "no_code", None)
       ELSE \E i \in UnusedRows(otps, email, purpose) :
               LET v == VerifyRow(otps, i, code) IN
               /\ otps' = v.table
               /\ last' = Call("verify", purpose, code, i, v.outcome,
                               v.remaining)

\* time passes between two calls
Tick ==
    /\ now + TickStep <= MaxTime
    /\ now' = now + TickStep
    /\ UNCHANGED <<otpVars, track, inviteVars, tokenVars, flowVars, bgVars>>

InitOtp ==
    /\ now = 0
    /\ otps = <<>>
    /\ last = NoCall
    /\ track = NoTrack
    /\ invites = <<>>
    /\ users = <<>>
    /\ reqs = <<>>
    /\ tokIn = NoBundle
    /\ tok = NoToken
    /\ tokOut = NoResult
    /\ resp = NoResponse
    /\ gens = IdleCalls
    /\ cap = MaxRecords
    /\ sess = NoSessions
    /\ vers = IdleVerifies
    /\ mail = NoMail

\* the codes secrets.choice may draw: the model compares codes only for
\* equality, so the first code of a run is called 111111
DrawCodes == IF otps = <<>> THEN {"111111"} ELSE Codes

\* a generate_otp call, its history not recorded
Generate ==
    /\ \E e \in RawEmails, p \in Purposes, c \in DrawCodes :
          GenerateOtp(e, p, c)
    /\ UNCHANGED <<now, track, inviteVars, tokenVars, flowVars, bgVars>>

\* a verify_otp call, its history not recorded
Verify ==
    /\ \E e \in RawEmails, p \in Purposes, c \in Codes : VerifyOtp(e, c, p)
    /\ UNCHANGED <<now, track, inviteVars, tokenVars, flowVars, bgVars>>

NextOtp == Generate \/ Verify \/ Tick

SpecOtp == InitOtp /\ [][NextOtp]_vars

----------------------------------------------------------------------------
(* The OTP engine with room for one more row and a longer step of time:    *)
(* two locked rows of an email next to a third row.                        *)

InitWide ==
    /\ now = 0
    /\ otps = <<>>
    /\ last = NoCall
    /\ track = NoTrack
    /\ invites = <<>>
    /\ users = <<>>
    /\ reqs = <<>>
    /\ tokIn = NoBundle
    /\ tok = NoToken
    /\ tokOut = NoResult
    /\ resp = NoResponse
    /\ gens = IdleCalls
    /\ cap = MaxRecords + 1
    /\ sess = NoSessions
    /\ vers = IdleVerifies
    /\ mail = NoMail

TickWide ==
    /\ now + WideTick <= WideMaxTime
    /\ now' = now + WideTick
    /\ UNCHANGED <<otpVars, track, inviteVars, tokenVars, flowVars, bgVars>>

NextWide == Generate \/ Verify \/ TickWide

SpecOtpWide == InitWide /\ [][NextWide]_vars

----------------------------------------------------------------------------
(* Overlapping generate_otp calls: a call gives way to the other calls at  *)
(* each await, that is at each call of the store.                          *)

\* lines 91-107: the lookup of the live row and the reuse test
GenLookup(c, raw, purpose) ==
    LET email == NormalizeEmail(raw)
        call == [NoGenCall EXCEPT !.email = email, !.purpose = purpose]
    IN
    /\ gens[c].pc = "idle"
    /\ IF LiveRows(otps, email, purpose) = {}
       THEN gens' = [gens EXCEPT ![c] = [call EXCEPT !.pc = "cooldown"]]
       ELSE \E i \in LiveRows(otps, email, purpose) :
               gens' = [gens EXCEPT ![c] =
                          IF Reusable(otps[i])
                          THEN [call EXCEPT !.pc = "done", !.existing = i,
                                            !.code = otps[i].otp,
                                            !.outcome = "reused"]
                          ELSE [call EXCEPT !.pc = "expire",
                                            !.existing = i]]
    /\ UNCHANGED <<now, otpVars, track, inviteVars, tokenVars, resp, cap,
                   sess, bgVars>>

\* line 107: the live row that cannot be reused is marked expired
GenExpire(c) ==
    /\ gens[c].pc = "expire"
    /\ otps' = UpdateOne(otps, gens[c].existing, [is_expired |-> TRUE])
    /\ gens' = [gens EXCEPT ![c].pc = "cooldown"]
    /\ UNCHANGED <<now, last, track, inviteVars, tokenVars, resp, cap, sess,
                   bgVars>>

\* lines 109-111: _check_cooldown
GenCooldown(c) ==
    /\ gens[c].pc = "cooldown"
    /\ \E k \in LockedRows(otps, gens[c].email) :
          gens' = [gens EXCEPT ![c] =
                     IF InCooldown(otps, k)
                     THEN [@ EXCEPT !.pc = "done",
                                    !.outcome = "rate_limited"]
                     ELSE [@ EXCEPT !.pc = "scan"]]
    /\ UNCHANGED <<now, otpVars, track, inviteVars, tokenVars, resp, cap,
                   sess, bgVars>>

\* line 214: _cleanup_old_otps lists the unused rows of the email
GenScan(c) ==
    LET old_otps == {i \in RowIds(otps) :
                        /\ otps[i].email = Lower(gens[c].email)
                        /\ ~otps[i].is_used}
    IN
    /\ gens[c].pc = "scan"
    /\ gens' = [gens EXCEPT ![c].old_otps = old_otps, ![c].todo = old_otps,
                            ![c].pc = IF old_otps = {} THEN "insert"
                                      ELSE "clean"]
    /\ UNCHANGED <<now, otpVars, track, inviteVars, tokenVars, resp, cap,
                   sess, bgVars>>

\* lines 215-216: _cleanup_old_otps marks the next listed row expired
GenClean(c) ==
    /\ gens[c].pc = "clean"
    /\ LET i == CHOOSE x \in gens[c].todo :
                    \A y \in gens[c].todo : x <= y
       IN  /\ otps' = UpdateOne(otps, i, [is_expired |-> TRUE])
           /\ gens' = [gens EXCEPT ![c].todo = @ \ {i},
                                   ![c].pc = IF gens[c].todo = {i}
                                             THEN "insert" ELSE "clean"]
    /\ UNCHANGED <<now, last, track, inviteVars, tokenVars, resp, cap, sess,
                   bgVars>>

\* lines 115-130: the code is drawn, the row inserted, the code returned
GenInsert(c, code) ==
    /\ gens[c].pc = "insert"
    /\ otps' = InsertOne(otps, NewOtp(gens[c].email, gens[c].purpose, code))
    /\ gens' = [gens EXCEPT ![c].pc = "done", ![c].code = code,
                            ![c].row = Len(otps'), ![c].outcome = "fresh"]
    /\ UNCHANGED <<now, last, track, inviteVars, tokenVars, resp, cap, sess,
                   bgVars>>

Lookup ==
    \E c \in 1..NumCalls, e \in RawEmails, p \in Purposes :
        GenLookup(c, e, p)

Expire == \E c \in 1..NumCalls : GenExpire(c)

Cooldown == \E c \in 1..NumCalls : GenCooldown(c)

Scan == \E c \in 1..NumCalls : GenScan(c)

Clean == \E c \in 1..NumCalls : GenClean(c)

InsertRow == \E c \in 1..NumCalls, code \in DrawCodes : GenInsert(c, code)

NextOtpConc ==
    \/ Lookup \/ Expire \/ Cooldown \/ Scan \/ Clean \/ InsertRow \/ Tick

SpecOtpConc == InitOtp /\ [][NextOtpConc]_vars

----------------------------------------------------------------------------
(* Overlapping verify_otp calls: requests are served in parallel, so the   *)
(* calls interleave at each call of the store.  A call keeps the row       *)
(* select_one returned (otp_record) and works on that copy.  The calls are *)
(* alike, so they are numbered in the order they start.                    *)

\* lines 181-195: select_one, the expiry test and the attempts test
VerifySelect(v, raw, code, purpose) ==
    LET email == NormalizeEmail(raw)
        call == [NoVerifyCall EXCEPT !.purpose = purpose, !.code = code]
    IN
    /\ vers[v].pc = "idle"
    /\ \A u \in 1..(v - 1) : vers[u].pc # "idle"
    /\ IF UnusedRows(otps, email, purpose) = {}
       THEN vers' = [vers EXCEPT ![v] = [call EXCEPT !.pc = "done",
                                                     !.outcome = "no_code"]]
       ELSE \E i \in UnusedRows(otps, email, purpose) :
               LET attempts == otps[i].attempts + 1
                   otp_record == [call EXCEPT !.row = i, !.otp = otps[i].otp,
                                              !.attempts = attempts]
               IN  vers' = [vers EXCEPT ![v] =
                      IF now > otps[i].expires_at
                      THEN [otp_record EXCEPT !.pc = "expire"]
                      ELSE IF attempts > OTP_MAX_ATTEMPTS
                      THEN [otp_record EXCEPT
                               !.pc = "lock",
                               !.until = now + OTP_COOLDOWN_MINUTES]
                      ELSE [otp_record EXCEPT !.pc = "count"]]
    /\ UNCHANGED <<now, otpVars, track, inviteVars, tokenVars, flowVars,
                   mail>>

\* lines 188-189: the expired row is marked expired
VerifyExpire(v) ==
    /\ vers[v].pc = "expire"
    /\ otps' = UpdateOne(otps, vers[v].row, [is_expired |-> TRUE])
    /\ vers' = [vers EXCEPT ![v].pc = "done", ![v].outcome = "expired"]
    /\ UNCHANGED <<now, last, track, inviteVars, tokenVars, flowVars, mail>>

\* lines 193-196: the row is locked
VerifyLock(v) ==
    /\ vers[v].pc = "lock"
    /\ otps' = UpdateOne(otps, vers[v].row,
                         [is_locked |-> TRUE, locked_until |-> vers[v].until])
    /\ vers' = [vers EXCEPT ![v].pc = "done", ![v].outcome = "locked"]
    /\ UNCHANGED <<now, last, track, inviteVars, tokenVars, flowVars, mail>>

\* lines 198-201: the attempt is stored, then the codes are compared
VerifyCount(v) ==
    /\ vers[v].pc = "count"
    /\ otps' = UpdateOne(otps, vers[v].row, [attempts |-> vers[v].attempts])
    /\ vers' = [vers EXCEPT ![v] =
                  IF vers[v].otp # vers[v].code
                  THEN [@ EXCEPT !.pc = "done", !.outcome = "invalid",
                                 !.remaining = OTP_MAX_ATTEMPTS
                                               - vers[v].attempts]
                  ELSE [@ EXCEPT !.pc = "use"]]
    /\ UNCHANGED <<now, last, track, inviteVars, tokenVars, flowVars, mail>>

\* lines 203-206: the row is marked used
VerifyUse(v) ==
    /\ vers[v].pc = "use"
    /\ otps' = UpdateOne(otps, vers[v].row, [is_used |-> TRUE])
    /\ vers' = [vers EXCEPT ![v].pc = "done", ![v].outcome = "success"]
    /\ UNCHANGED <<now, last, track, inviteVars, tokenVars, flowVars, mail>>

InitVerifyConc ==
    /\ now = 0
    /\ otps = <<>>
    /\ last = NoCall
    /\ track = NoTrack
    /\ invites = <<>>
    /\ users = <<>>
    /\ reqs = <<>>
    /\ tokIn = NoBundle
    /\ tok = NoToken
    /\ tokOut = NoResult
    /\ resp = NoResponse
    /\ gens = IdleCalls
    /\ cap = 1
    /\ sess = NoSessions
    /\ vers = IdleVerifies
    /\ mail = NoMail

SelectRecord ==
    \E v \in 1..NumVerifies, e \in RawEmails, c \in Codes, p \in Purposes :
        VerifySelect(v, e, c, p)

ExpireRecord == \E v \in 1..NumVerifies : VerifyExpire(v)

LockRecord == \E v \in 1..NumVerifies : VerifyLock(v)

CountAttempt == \E v \in 1..NumVerifies : VerifyCount(v)

UseRecord == \E v \in 1..NumVerifies : VerifyUse(v)

NextVerifyConc ==
    \/ Generate \/ SelectRecord \/ ExpireRecord \/ LockRecord
    \/ CountAttempt \/ UseRecord \/ Tick

SpecVerifyConc == InitVerifyConc /\ [][NextVerifyConc]_vars

----------------------------------------------------------------------------
(* The OTP engine with the history of the latest generate_otp call:        *)
(* track.id is the row that call returned the code of, track.tried says    *)
(* whether that code has been submitted for the row's purpose since, and   *)
(* while track.clean holds, track.wrong counts the wrong codes submitted   *)
(* for the row's purpose, before its expires_at, with no other call made   *)
(* since the row was inserted.                                             *)

TrackGenerate ==
    IF last'.outcome = "rate_limited" THEN NoTrack
    ELSE [id |-> last'.sel, clean |-> last'.outcome = "fresh", wrong |-> 0,
          tried |-> FALSE]

TrackVerify ==
    IF track.id = 0 THEN track
    ELSE LET r == otps[track.id]
             mine == r.purpose = last'.purpose
             clean == /\ track.clean /\ mine /\ last'.code # r.otp
                      /\ now <= r.expires_at
         IN  [id |-> track.id,
              clean |-> clean,
              wrong |-> IF ~clean THEN 0
                        ELSE IF track.wrong <= OTP_MAX_ATTEMPTS
                        THEN track.wrong + 1 ELSE track.wrong,
              tried |-> track.tried \/ (mine /\ last'.code = r.otp)]

GenerateTracked ==
    /\ \E e \in RawEmails, p \in Purposes, c \in DrawCodes :
          GenerateOtp(e, p, c)
    /\ track' = TrackGenerate
    /\ UNCHANGED <<now, inviteVars, tokenVars, flowVars, bgVars>>

VerifyTracked ==
    /\ \E e \in RawEmails, p \in Purposes, c \in Codes : VerifyOtp(e, c, p)
    /\ track' = TrackVerify
    /\ UNCHANGED <<now, inviteVars, tokenVars, flowVars, bgVars>>

NextOtpHist == GenerateTracked \/ VerifyTracked \/ Tick

SpecOtpHist == InitOtp /\ [][NextOtpHist]_vars

----------------------------------------------------------------------------
(* Invitations: send_invite and invited_user_signup (app/api/auth.py).     *)
(* Requests are served in parallel, so the handlers of two invite-signup   *)
(* requests interleave at the calls to the record store.                   *)

InviteEmails == {"s1@x.com", " S2@x.com"}
InviteTokens == {"tokA", "tokB", "tokC"}

\* request.email.lower().strip() on the emails above
NormalizeInviteEmail(e) == IF e = " S2@x.com" THEN "s2@x.com" ELSE e

\* the first user of the branch, created by first-signup
AdminUser == [email |-> "admin@x.com", branch_id |-> 1, is_admin |-> TRUE,
              is_active |-> TRUE, is_verified |-> TRUE]

NoRequest == [pc |-> "idle", token |-> "", inv |-> 0, status |-> 0,
              detail |-> ""]

\* the response of a request whose handler raised HTTPException(status,
\* detail) inside its try block: the except Exception clause catches it
RaisedInSignup(status, detail) ==
    [status |-> 500, detail |-> "Signup failed"]

\* the tokens create_invite_token may return: 32 random characters, taken
\* to differ from every token issued before
UnissuedTokens == InviteTokens \ {invites[i].token : i \in 1..Len(invites)}

\* send_invite, called by the admin of the branch
SendInvite(raw, token) ==
    LET email == NormalizeInviteEmail(raw) IN
    /\ Len(invites) < MaxInvites
    /\ token \in UnissuedTokens
    /\ email # AdminUser.email
    /\ {i \in RowIds(users) : users[i].email = email} = {}
    /\ invites' = InsertOne(invites,
                     [email |-> email, token |-> token,
                      branch_id |-> AdminUser.branch_id,
                      expires_at |-> now + INVITE_EXPIRE_DAYS * DAY_MINUTES,
                      is_used |-> FALSE])
    /\ mail' = Queued(email, "invite", token)
    /\ resp' = Response("send_invite", 0, 200,
                        "Invitation link generated and sent to " \o email, 0)
    /\ UNCHANGED <<now, otpVars, track, users, reqs, tokenVars, gens, cap,
                   sess, vers>>

\* the rows select_one may return to invited_user_signup
UnusedInvites(token) ==
    {i \in RowIds(invites) :
        invites[i].token = token /\ ~invites[i].is_used}

\* invited_user_signup without the expiry test
SignupSelectAnyAge(r, token) ==
    /\ reqs[r].pc = "idle"
    /\ IF UnusedInvites(token) = {}
       THEN reqs' = [reqs EXCEPT ![r] =
                       [pc |-> "done", token |-> token, inv |-> 0]
                       @@ RaisedInSignup(400, "Invalid or used invite token")]
       ELSE \E i \in UnusedInvites(token) :
               reqs' = [reqs EXCEPT ![r] =
                          [pc |-> "insert", token |-> token, inv |-> i,
                           status |-> 0, detail |-> ""]]
    /\ UNCHANGED <<now, otpVars, track, invites, users, tokenVars, flowVars,
                   bgVars>>

\* invited_user_signup up to its first write: the lookup of the invite and
\* the expiry test
SignupSelect(r, token) ==
    /\ reqs[r].pc = "idle"
    /\ IF UnusedInvites(token) = {}
       THEN reqs' = [reqs EXCEPT ![r] =
                       [pc |-> "done", token |-> token, inv |-> 0]
                       @@ RaisedInSignup(400, "Invalid or used invite token")]
       ELSE \E i \in UnusedInvites(token) :
               IF now > invites[i].expires_at
               THEN reqs' = [reqs EXCEPT ![r] =
                               [pc |-> "done", token |-> token, inv |-> i]
                               @@ RaisedInSignup(400,
                                                 "Invite token has expired")]
               ELSE reqs' = [reqs EXCEPT ![r] =
                               [pc |-> "insert", token |-> token, inv |-> i,
                                status |-> 0, detail |-> ""]]
    /\ UNCHANGED <<now, otpVars, track, invites, users, tokenVars, flowVars,
                   bgVars>>

\* invited_user_signup: insert_one("users", user_data)
SignupInsert(r) ==
    /\ reqs[r].pc = "insert"
    /\ users' = InsertOne(users,
                   [email |-> invites[reqs[r].inv].email,
                    branch_id |-> invites[reqs[r].inv].branch_id,
                    is_admin |-> FALSE, is_active |-> TRUE,
                    is_verified |-> TRUE])
    /\ reqs' = [reqs EXCEPT ![r].pc = "update"]
    /\ UNCHANGED <<now, otpVars, track, invites, tokenVars, flowVars, bgVars>>

\* invited_user_signup: update_one("invites", ...) and the response
SignupUpdate(r) ==
    /\ reqs[r].pc = "update"
    /\ invites' = UpdateOne(invites, reqs[r].inv, [is_used |-> TRUE])
    /\ reqs' = [reqs EXCEPT ![r].pc = "done", ![r].status = 200]
    /\ UNCHANGED <<now, otpVars, track, users, tokenVars, flowVars, bgVars>>

\* days pass
TickInvite ==
    /\ now + TickDays * DAY_MINUTES <= MaxDays * DAY_MINUTES
    /\ now' = now + TickDays * DAY_MINUTES
    /\ UNCHANGED <<otpVars, track, inviteVars, tokenVars, flowVars, bgVars>>

InitInvite ==
    /\ now = 0
    /\ otps = <<>>
    /\ last = NoCall
    /\ track = NoTrack
    /\ invites = <<>>
    /\ users = <<AdminUser>>
    /\ reqs = [r \in 1..NumRequests |-> NoRequest]
    /\ tokIn = NoBundle
    /\ tok = NoToken
    /\ tokOut = NoResult
    /\ resp = NoResponse
    /\ gens = IdleCalls
    /\ cap = MaxRecords
    /\ sess = NoSessions
    /\ vers = IdleVerifies
    /\ mail = NoMail

Invite == \E e \in InviteEmails, t \in InviteTokens : SendInvite(e, t)
Select == \E r \in 1..NumRequests, t \in InviteTokens : SignupSelect(r, t)
Insert == \E r \in 1..NumRequests : SignupInsert(r)
Update == \E r \in 1..NumRequests : SignupUpdate(r)

NextInvite == Invite \/ Select \/ Insert \/ Update \/ TickInvite

SpecInvite == InitInvite /\ [][NextInvite]_vars

----------------------------------------------------------------------------
(* The session resolver (app/dependencies.py), login (app/api/auth.py) and  *)
(* the admin operations on users (app/api/users.py).  A user's user_id is   *)
(* the position of its row, a number; a client holds the bearer token of    *)
(* its latest login and sends it with each request.                         *)

StaffUser == [email |-> "staff@x.com", branch_id |-> 1, is_admin |-> FALSE,
              is_active |-> TRUE, is_verified |-> TRUE]

LoginEmails == {"admin@x.com", "staff@x.com", "nobody@x.com"}

\* the ids a client may put in the path of a request
PathIds == 1..3

\* the claims login puts in the access token of user u
UserClaims(u) ==
    [user_id |-> PyStrOf(PyInt(u)), email |-> PyStr(users[u].email),
     branch_id |-> PyStrOf(PyInt(users[u].branch_id)),
     is_admin |-> PyBool(users[u].is_admin)]

\* login: the password matches the stored hash or does not
Login(c, email, password_ok) ==
    LET found == {u \in RowIds(users) :
                     users[u].email = email /\ users[u].is_active}
    IN
    /\ IF found = {} \/ ~password_ok
       THEN /\ resp' = Response("login", c, 401, "Invalid credentials", 0)
            /\ sess' = sess
       ELSE \E u \in found :
               IF ~users[u].is_verified
               THEN /\ resp' = Response("login", c, 403,
                                        "Verification required", 0)
                    /\ sess' = sess
               ELSE /\ resp' = Response("login", c, 200, "", u)
                    /\ sess' = [sess EXCEPT
                                  ![c] = CreateAccessToken(UserClaims(u))]
    /\ UNCHANGED <<now, otpVars, track, inviteVars, tokenVars, gens, cap,
                   bgVars>>

\* the rows select_one("users", {user_id, is_active: True}) may return
ActiveRows(user_id) ==
    {u \in RowIds(users) :
        PyStrOf(PyInt(u)).s = user_id /\ users[u].is_active}

\* get_current_user reading the user row without the is_active filter
GetCurrentUserAnyRow(c) ==
    IF sess[c] = NoToken
    THEN Response("resolve", c, 401, "No authorization header found", 0)
    ELSE LET token_data == VerifyToken(sess[c], "access") IN
         IF token_data.kind = "null"
         THEN Response("resolve", c, 401,
                       "Token is invalid, expired, or malformed", 0)
         ELSE LET found == {u \in RowIds(users) :
                               PyStrOf(PyInt(u)).s = token_data.user_id}
              IN  IF found = {}
                  THEN Response("resolve", c, 401,
                         "User account no longer exists or is inactive", 0)
                  ELSE Response("resolve", c, 200, "",
                                CHOOSE u \in found : TRUE)

\* get_current_user for the request of client c: the response it raises, or
\* status 200 and the user row it returns
GetCurrentUser(c) ==
    IF sess[c] = NoToken
    THEN Response("resolve", c, 401, "No authorization header found", 0)
    ELSE LET token_data == VerifyToken(sess[c], "access") IN
         IF token_data.kind = "null"
         THEN Response("resolve", c, 401,
                       "Token is invalid, expired, or malformed", 0)
         ELSE IF ActiveRows(token_data.user_id) = {}
         THEN Response("resolve", c, 401,
                       "User account no longer exists or is inactive", 0)
         ELSE Response("resolve", c, 200, "",
                       CHOOSE u \in ActiveRows(token_data.user_id) : TRUE)

\* get_current_admin_user trusting the is_admin claim of the token
GetCurrentAdminUserByClaim(c) ==
    LET current_user == GetCurrentUser(c) IN
    IF current_user.status # 200 THEN current_user
    ELSE IF ~VerifyToken(sess[c], "access").is_admin
    THEN [current_user EXCEPT
             !.status = 403,
             !.detail = "Access denied: Admin privileges required"]
    ELSE current_user

\* get_current_admin_user for the request of client c
GetCurrentAdminUser(c) ==
    LET current_user == GetCurrentUser(c) IN
    IF current_user.status # 200 THEN current_user
    ELSE IF ~users[current_user.user].is_admin
    THEN [current_user EXCEPT
             !.status = 403,
             !.detail = "Access denied: Admin privileges required"]
    ELSE current_user

\* GET /me
GetMyProfile(c) ==
    /\ resp' = [GetCurrentUser(c) EXCEPT !.op = "me"]
    /\ UNCHANGED <<now, otpVars, track, inviteVars, tokenVars, gens, cap,
                   sess, bgVars>>

\* PUT /{user_id}/toggle-active: the path carries the id as a string, the
\* row of the caller carries it as a number
ToggleUserActive(c, user_id) ==
    LET current_user == GetCurrentAdminUser(c)
        raised(status, detail) ==
            Response("toggle", c, status, detail, current_user.user)
    IN
    /\ IF current_user.status # 200
       THEN resp' = [current_user EXCEPT !.op = "toggle"] /\ users' = users
       ELSE IF \/ user_id \notin RowIds(users)
               \/ users[user_id].branch_id
                     # users[current_user.user].branch_id
       THEN /\ resp' = raised(404, "User not found in your branch")
            /\ users' = users
       ELSE IF PyStrOf(PyInt(user_id)) = PyInt(current_user.user)
       THEN /\ resp' = raised(400,
                 "You cannot deactivate your own administrative account.")
            /\ users' = users
       ELSE /\ users' = UpdateOne(users, user_id,
                           [is_active |-> ~users[user_id].is_active])
            /\ resp' = raised(200,
                          IF ~users[user_id].is_active
                          THEN "User status successfully updated to active"
                          ELSE "User status successfully updated to inactive")
    /\ UNCHANGED <<now, otpVars, track, invites, reqs, tokenVars, gens, cap,
                   sess, bgVars>>

\* PUT /{user_id}/make-admin
MakeUserAdmin(c, user_id) ==
    LET current_user == GetCurrentAdminUser(c)
        raised(status, detail) ==
            Response("make_admin", c, status, detail, current_user.user)
    IN
    /\ IF current_user.status # 200
       THEN /\ resp' = [current_user EXCEPT !.op = "make_admin"]
            /\ users' = users
       ELSE IF \/ user_id \notin RowIds(users)
               \/ users[user_id].branch_id
                     # users[current_user.user].branch_id
       THEN /\ resp' = raised(404, "User not found in your branch")
            /\ users' = users
       ELSE /\ users' = UpdateOne(users, user_id, [is_admin |-> TRUE])
            /\ resp' = raised(200,
                          "User has been granted administrative privileges")
    /\ UNCHANGED <<now, otpVars, track, invites, reqs, tokenVars, gens, cap,
                   sess, bgVars>>

\* the client sends its next requests without an Authorization header
DropHeader(c) ==
    /\ sess[c] # NoToken
    /\ sess' = [sess EXCEPT ![c] = NoToken]
    /\ UNCHANGED <<now, otpVars, track, inviteVars, tokenVars, resp, gens,
                   cap, bgVars>>

\* the client sends its next requests with a string that is not a token
GarbleHeader(c) ==
    /\ sess[c] # Malformed
    /\ sess' = [sess EXCEPT ![c] = Malformed]
    /\ UNCHANGED <<now, otpVars, track, inviteVars, tokenVars, resp, gens,
                   cap, bgVars>>

InitSession ==
    /\ now = 0
    /\ otps = <<>>
    /\ last = NoCall
    /\ track = NoTrack
    /\ invites = <<>>
    /\ users = <<AdminUser, StaffUser>>
    /\ reqs = <<>>
    /\ tokIn = NoBundle
    /\ tok = NoToken
    /\ tokOut = NoResult
    /\ resp = NoResponse
    /\ gens = IdleCalls
    /\ cap = MaxRecords
    /\ sess = NoSessions
    /\ vers = IdleVerifies
    /\ mail = NoMail

LoginCall ==
    \E c \in 1..NumClients, e \in LoginEmails, ok \in BOOLEAN :
        Login(c, e, ok)

Me == \E c \in 1..NumClients : GetMyProfile(c)

Toggle == \E c \in 1..NumClients, id \in PathIds : ToggleUserActive(c, id)

MakeAdmin == \E c \in 1..NumClients, id \in PathIds : MakeUserAdmin(c, id)

Drop == \E c \in 1..NumClients : DropHeader(c)

GarbleSent == \E c \in 1..NumClients : GarbleHeader(c)

NextSession ==
    \/ LoginCall \/ Me \/ Toggle \/ MakeAdmin \/ Drop \/ GarbleSent
    \/ TickToken

SpecSession == InitSession /\ [][NextSession]_vars

----------------------------------------------------------------------------
(* Password recovery (app/api/auth.py): forgot-password and verify-otp.    *)
(* The response of an endpoint that returns a body is status 200 with the   *)
(* body's message as its detail.                                            *)

RecoveryEmails == {"A@X.com", "nobody@x.com"}

\* the registered user of the recovery flow
RecoveryUser == [email |-> "a@x.com", branch_id |-> 1, is_admin |-> TRUE,
                 is_active |-> TRUE, is_verified |-> TRUE,
                 password_hash |-> "bcrypt:old"]

\* the message of the result verify_otp returns
VerifyMessage(call) ==
    CASE call.outcome = "no_code" -> "No valid verification code found."
      [] call.outcome = "expired" -> "Verification code has expired."
      [] call.outcome = "locked" ->
            "Too many failed attempts. Account locked."
      [] call.outcome = "invalid" ->
            "Invalid code. " \o ToString(call.remaining) \o " attempts left."
      [] OTHER -> "Verification successful."

\* POST /forgot-password
ForgotPassword(raw, code) ==
    LET found == {u \in RowIds(users) :
                     users[u].email = Lower(raw) /\ users[u].is_active}
    IN
    /\ IF found = {}
       THEN /\ resp' = Response("forgot", 0, 200,
                "If this email is registered, a reset code has been sent.",
                0)
            /\ UNCHANGED <<otpVars, mail>>
       ELSE /\ GenerateOtp(raw, "password_reset", code)
            /\ resp' = IF last'.outcome = "rate_limited"
                       THEN Response("forgot", 0, 500,
                                     "Failed to process reset request", 0)
                       ELSE Response("forgot", 0, 200,
                                     "Reset code sent to your email.", 0)
            /\ mail' = IF last'.outcome = "rate_limited" THEN mail
                       ELSE Queued(raw, "password_reset", last'.code)
    /\ UNCHANGED <<now, track, inviteVars, tokenVars, gens, cap, sess, vers>>

\* POST /verify-otp
VerifyOtpRequest(raw, code, purpose) ==
    /\ VerifyOtp(raw, code, purpose)
    /\ IF last'.outcome = "success" /\ purpose = "verification"
       THEN /\ users' = UpdateEach(users,
                           {u \in RowIds(users) : users[u].email = raw},
                           [is_verified |-> TRUE])
            /\ resp' = Response("verify_otp", 0, 200,
                                "Account verified successfully", 0)
            /\ tok' = tok
       ELSE IF last'.outcome = "success" /\ purpose = "password_reset"
       THEN /\ tok' = CreateResetToken(PyStr(raw))
            /\ resp' = Response("verify_otp", 0, 200,
                                "Code verified. Set your new password.", 0)
            /\ users' = users
       ELSE /\ resp' = Response("verify_otp", 0, 200, VerifyMessage(last'),
                                0)
            /\ UNCHANGED <<users, tok>>
    /\ UNCHANGED <<now, track, invites, reqs, tokIn, tokOut, gens, cap, sess,
                   bgVars>>

\* get_password_hash: the bcrypt hash of the password
GetPasswordHash(password) == "bcrypt:" \o password

NewPasswords == {"new"}

\* the tokens a client can put in a reset-password request: the reset token
\* of the latest verify-otp response, text that is not a token, a reset
\* token signed with another key, and the access token of a login
ResetTokens ==
    {tok, Malformed,
     [CreateResetToken(PyStr("a@x.com")) EXCEPT !.key = FORGED_KEY],
     CreateAccessToken([user_id |-> PyInt(1), email |-> PyStr("a@x.com"),
                        branch_id |-> PyInt(1), is_admin |-> PyBool(TRUE)])}

\* POST /reset-password
ResetPassword(t, new_password) ==
    LET email == VerifyResetToken(t)
        found == {u \in RowIds(users) : users[u].email = email.email}
    IN
    /\ IF email.kind = "null" \/ email.email = ""
       THEN /\ resp' = Response("reset_password", 0, 400,
                                "Invalid or expired reset session", 0)
            /\ users' = users
       ELSE IF found = {}
       THEN /\ resp' = Response("reset_password", 0, 404,
                                "User no longer exists", 0)
            /\ users' = users
       ELSE \E u \in found :
               /\ users' = UpdateOne(users, u,
                              [password_hash |->
                                  GetPasswordHash(new_password)])
               /\ resp' = Response("reset_password", 0, 200,
                                   "Password updated successfully", 0)
    /\ UNCHANGED <<now, otpVars, track, invites, reqs, tokenVars, gens, cap,
                   sess, bgVars>>

InitRecovery ==
    /\ now = 0
    /\ otps = <<>>
    /\ last = NoCall
    /\ track = NoTrack
    /\ invites = <<>>
    /\ users = <<RecoveryUser>>
    /\ reqs = <<>>
    /\ tokIn = NoBundle
    /\ tok = NoToken
    /\ tokOut = NoResult
    /\ resp = NoResponse
    /\ gens = IdleCalls
    /\ cap = MaxRecords
    /\ sess = NoSessions
    /\ vers = IdleVerifies
    /\ mail = NoMail

Forgot == \E e \in RecoveryEmails, c \in DrawCodes : ForgotPassword(e, c)

VerifyRequest ==
    \E e \in RecoveryEmails, p \in Purposes, c \in Codes :
        VerifyOtpRequest(e, c, p)

NextRecovery == Forgot \/ VerifyRequest \/ Tick

SpecRecovery == InitRecovery /\ [][NextRecovery]_vars

\* the recovery flow up to the new password, for the registered email as
\* it is stored and as a client may capitalise it
ResetEmails == {"a@x.com", "A@X.com"}

ForgotRequest ==
    \E e \in ResetEmails, c \in DrawCodes : ForgotPassword(e, c)

VerifyForReset ==
    \E e \in ResetEmails, p \in Purposes, c \in Codes :
        VerifyOtpRequest(e, c, p)

Reset ==
    \E t \in ResetTokens, pw \in NewPasswords : ResetPassword(t, pw)

NextReset == ForgotRequest \/ VerifyForReset \/ Reset \/ TickWide

SpecReset == InitRecovery /\ [][NextReset]_vars

----------------------------------------------------------------------------
(* Email delivery: send-otp, forgot-password and send-invite hand the      *)
(* email to a background task, which runs once the response has been       *)
(* sent; send_otp_email and send_invitation_email (app/services/otp.py)    *)
(* catch every exception of the SMTP exchange and return False.            *)

\* POST /send-otp
SendOtp(raw, purpose, code) ==
    /\ GenerateOtp(raw, purpose, code)
    /\ resp' = IF last'.outcome = "rate_limited"
               THEN Response("send_otp", 0, 200,
                       "Rate limit exceeded. Please wait "
                       \o ToString(OTP_COOLDOWN_MINUTES) \o " minutes.", 0)
               ELSE Response("send_otp", 0, 200, "OTP sent successfully", 0)
    /\ mail' = IF last'.outcome = "rate_limited" THEN mail
               ELSE Queued(raw, purpose, last'.code)
    /\ UNCHANGED <<now, track, inviteVars, tokenVars, gens, cap, sess, vers>>

\* the background task awaited by the handler, its failure raised
SendEmailAwaited(ok) ==
    /\ mail.state = "queued"
    /\ mail' = [mail EXCEPT !.state = IF ok THEN "sent" ELSE "failed"]
    /\ resp' = IF ok THEN resp
               ELSE Response(resp.op, 0, 500, "Internal server error", 0)

\* send_otp_email, send_invitation_email: the SMTP exchange succeeds (ok)
\* or raises; the response of the request has been sent before
SendEmail(ok) ==
    /\ mail.state = "queued"
    /\ mail' = [mail EXCEPT !.state = IF ok THEN "sent" ELSE "failed"]
    /\ resp' = resp

InitMail ==
    /\ now = 0
    /\ otps = <<>>
    /\ last = NoCall
    /\ track = NoTrack
    /\ invites = <<>>
    /\ users = <<AdminUser, RecoveryUser>>
    /\ reqs = <<>>
    /\ tokIn = NoBundle
    /\ tok = NoToken
    /\ tokOut = NoResult
    /\ resp = NoResponse
    /\ gens = IdleCalls
    /\ cap = MaxRecords
    /\ sess = NoSessions
    /\ vers = IdleVerifies
    /\ mail = NoMail

SendOtpRequest ==
    \E e \in RawEmails, p \in Purposes, c \in DrawCodes : SendOtp(e, p, c)

Deliver ==
    /\ \E ok \in BOOLEAN : SendEmail(ok)
    /\ UNCHANGED <<now, otpVars, track, inviteVars, tokenVars, gens, cap,
                   sess, vers>>

NextMail == SendOtpRequest \/ Forgot \/ Invite \/ Deliver

SpecMail == InitMail /\ [][NextMail]_vars

----------------------------------------------------------------------------
(* Properties of the OTP engine *)

\* the step is a verify_otp call
VerifyStep == now' = now /\ last'.op = "verify"

\* the step is a generate_otp call
GenerateStep == now' = now /\ last'.op = "generate"

\* the step is a verify_otp call for which select_one returned a row
VerifyRowStep == VerifyStep /\ last'.sel # 0

\* C1: for the code returned by the latest generate_otp call, the first
\* verify_otp with that code, made before the row's expires_at while the row
\* is not locked and has attempts left, returns success; once the row is
\* used, a later verify_otp with the same code returns failure.
C1_FirstVerifySucceedsOnce ==
    [][(VerifyStep /\ track.id # 0) =>
         LET r == otps[track.id] IN
         (last'.purpose = r.purpose /\ last'.code = r.otp) =>
            /\ (/\ ~track.tried /\ now < r.expires_at /\ ~r.is_locked
                /\ r.attempts < OTP_MAX_ATTEMPTS /\ ~r.is_used)
               => last'.outcome = "success"
            /\ (track.tried /\ r.is_used) => last'.outcome # "success"]_vars

\* C2: verify_otp never returns success by matching a row whose is_expired
\* flag is true, and never by matching a row whose is_used flag is true.
C2_NoSuccessOnExpiredOrUsed ==
    [][(VerifyRowStep /\ last'.outcome = "success") =>
         /\ ~otps[last'.sel].is_expired
         /\ ~otps[last'.sel].is_used]_vars

\* C3: when generate_otp is called twice for the same email and purpose with
\* no other call in between, and the row behind the first call is unused, not
\* marked expired and has more than OTP_REUSE_MINUTES of lifetime left, the
\* second call returns the code of the first and the table is unchanged.
C3_GenerateTwiceSameCode ==
    [][(/\ GenerateStep
        /\ last.op = "generate" /\ last.sel # 0
        /\ last'.purpose = last.purpose
        /\ ~otps[last.sel].is_used /\ ~otps[last.sel].is_expired
        /\ otps[last.sel].expires_at - now > OTP_REUSE_MINUTES)
       => /\ last'.code = last.code
          /\ last'.outcome = "reused"
          /\ otps' = otps]_vars

\* C3 witness: a generate_otp call returned the code of a row that was
\* inserted some time before
C3_Witness ==
    /\ last.op = "generate" /\ last.outcome = "reused"
    /\ otps[last.sel].expires_at < now + OTP_EXPIRE_MINUTES
    /\ last.code = otps[last.sel].otp

\* C4: after a row is inserted, the call that submits the
\* (OTP_MAX_ATTEMPTS + 1)-th wrong code in a row for its purpose sets
\* is_locked and locked_until = now + OTP_COOLDOWN_MINUTES on that row and
\* returns the lockout failure; and a locked row always has locked_until set.
C4_WrongCodesLock ==
    [][/\ \A i \in 1..Len(otps') :
             otps'[i].is_locked => otps'[i].locked_until # None
       /\ (/\ VerifyStep /\ track.id # 0
           /\ track.wrong = OTP_MAX_ATTEMPTS
           /\ track'.wrong = OTP_MAX_ATTEMPTS + 1)
          => /\ last'.outcome = "locked"
             /\ otps'[track.id].is_locked
             /\ otps'[track.id].locked_until
                   = now + OTP_COOLDOWN_MINUTES]_vars

\* C5: a verify_otp call against a locked row during its cooldown window
\* returns the lockout failure for every submitted code, does not set is_used
\* and leaves attempts unchanged.
C5_LockedRowStaysLocked ==
    [][(/\ VerifyRowStep
        /\ otps[last'.sel].is_locked
        /\ now < otps[last'.sel].locked_until)
       => /\ last'.outcome = "locked"
          /\ ~otps'[last'.sel].is_used
          /\ otps'[last'.sel].attempts = otps[last'.sel].attempts]_vars

\* C6: a verify_otp call made after the selected row's expires_at returns the
\* expiry failure for every submitted code, sets is_expired on that row and
\* changes nothing else in the table.
C6_ExpiredRowFails ==
    [][(VerifyRowStep /\ now > otps[last'.sel].expires_at)
       => /\ last'.outcome = "expired"
          /\ otps' = [otps EXCEPT ![last'.sel].is_expired = TRUE]]_vars

\* C6 witness: the correct code was submitted after expires_at, to a row
\* that had attempts counted before, and the call returned the expiry failure
C6_Witness ==
    /\ last.op = "verify" /\ last.sel # 0 /\ last.outcome = "expired"
    /\ last.code = otps[last.sel].otp
    /\ now > otps[last.sel].expires_at
    /\ otps[last.sel].attempts > 0
    /\ otps[last.sel].is_expired /\ ~otps[last.sel].is_used

\* C7: the table holds at most one row per (email, purpose) that is unused
\* and not marked expired.
C7_AtMostOneLive ==
    \A e \in {NormalizeEmail(x) : x \in RawEmails}, p \in Purposes :
        Cardinality(LiveRows(otps, e, p)) <= 1

\* C7 witness: a live row next to an unused, superseded row of the same
\* email and purpose whose expires_at has not passed
C7_Witness ==
    \E i, j \in 1..Len(otps) :
        /\ i # j
        /\ otps[i].email = otps[j].email /\ otps[i].purpose = otps[j].purpose
        /\ ~otps[i].is_used /\ otps[i].is_expired /\ now <= otps[i].expires_at
        /\ ~otps[j].is_used /\ ~otps[j].is_expired

\* the locked rows of an email whose locked_until is later than now
CoolingRows(email) ==
    {i \in RowIds(otps) :
        /\ otps[i].email = email /\ otps[i].is_locked
        /\ otps[i].locked_until # None /\ now < otps[i].locked_until}

\* C17: when generate_otp finds no live row it can reuse and some row of the
\* email is locked with locked_until later than now, the call fails with the
\* rate-limit error and inserts no row, whichever locked row of the email
\* the store returns first.
C17_CooldownBlocksGenerate ==
    [][(/\ GenerateStep /\ last'.outcome # "reused"
        /\ \E e \in RawEmails : CoolingRows(NormalizeEmail(e)) # {})
       => /\ last'.outcome = "rate_limited"
          /\ Len(otps') = Len(otps)]_vars

\* the locked rows of an email and purpose, not yet superseded, whose
\* cooldown has elapsed
ThawedRows(email, purpose) ==
    {i \in RowIds(otps) :
        /\ otps[i].email = email /\ otps[i].purpose = purpose
        /\ otps[i].is_locked /\ otps[i].locked_until # None
        /\ otps[i].locked_until <= now
        /\ ~otps[i].is_used /\ ~otps[i].is_expired}

\* C18: after a row has been locked and its cooldown has elapsed, the next
\* generate_otp for its email and purpose supersedes it with a new row whose
\* attempts is 0, and a verify_otp with the new code is evaluated against
\* the new row, with OTP_MAX_ATTEMPTS attempts available, not against the
\* locked row.
C18_FreshRowAfterCooldown ==
    [][\A e \in RawEmails :
          LET email == NormalizeEmail(e) IN
          /\ (/\ GenerateStep
               /\ ThawedRows(email, last'.purpose) # {}
               /\ CoolingRows(email) = {})
              => /\ last'.outcome = "fresh"
                 /\ otps'[last'.sel].attempts = 0
                 /\ \A i \in ThawedRows(email, last'.purpose) :
                        otps'[i].is_expired
          /\ (/\ VerifyRowStep
               /\ last.op = "generate" /\ last.outcome = "fresh"
               /\ last'.purpose = last.purpose /\ last'.code = last.code
               /\ \E i \in RowIds(otps) :
                     /\ i # last.sel /\ otps[i].is_locked
                     /\ otps[i].email = email
                     /\ otps[i].purpose = last.purpose)
              => /\ last'.sel = last.sel
                 /\ last'.outcome = "success"]_vars

\* C19: when the table holds more than one unused row of an email and
\* purpose, verify_otp evaluates the most recently created of them, so that
\* its result does not depend on the order in which the store returns rows.
C19_VerifySelectsLatest ==
    [][VerifyRowStep =>
         \A e \in RawEmails :
            \A i \in UnusedRows(otps, NormalizeEmail(e), last'.purpose) :
               /\ i <= last'.sel
               /\ VerifyRow(otps, i, last'.code).outcome = last'.outcome]_vars

\* call c returned the code of the row it inserted
InsertedBy(c) == gens[c].pc = "done" /\ gens[c].outcome = "fresh"

\* no call got the row of call c from its lookup or listed it in old_otps
Unseen(c) ==
    \A d \in 1..NumCalls :
        gens[d].existing # gens[c].row /\ gens[c].row \notin gens[d].old_otps

\* C20: two overlapping generate_otp calls for one email and purpose can
\* both find no live row and both insert: when neither call's row was read
\* by a lookup or a cleanup, the table holds the two rows, both unused and
\* not marked expired.
C20_RacingGeneratesBothLive ==
    \A c, d \in 1..NumCalls :
        (/\ c # d /\ InsertedBy(c) /\ InsertedBy(d)
         /\ gens[c].email = gens[d].email
         /\ gens[c].purpose = gens[d].purpose
         /\ gens[c].existing = 0 /\ gens[d].existing = 0
         /\ Unseen(c) /\ Unseen(d))
        => /\ gens[c].row # gens[d].row
           /\ {gens[c].row, gens[d].row}
                 \subseteq LiveRows(otps, gens[c].email, gens[c].purpose)

\* C20 witness: two calls for the same email and purpose both found no live
\* row and both inserted, and the table holds two rows of that email and
\* purpose that are unused and not marked expired
C20_Witness ==
    \E c, d \in 1..NumCalls :
        /\ c # d /\ InsertedBy(c) /\ InsertedBy(d)
        /\ gens[c].existing = 0 /\ gens[d].existing = 0
        /\ gens[c].purpose = gens[d].purpose
        /\ Cardinality(LiveRows(otps, gens[c].email, gens[c].purpose)) = 2

----------------------------------------------------------------------------
(* Properties of invite redemption *)

\* the requests that created a user from invite i
Redeemers(i) ==
    {r \in 1..NumRequests :
        /\ reqs[r].inv = i
        /\ reqs[r].pc = "update" \/ reqs[r].status = 200}

\* C8: under every interleaving of invite-signup requests that present the
\* same invite token, at most one request creates a user from the invite and
\* succeeds.
C8_InviteRedeemedOnce ==
    \A i \in 1..Len(invites) : Cardinality(Redeemers(i)) <= 1

\* C9: an invite-signup that presents the token of an invite whose is_used
\* flag is true gets the 400 'Invalid or used invite token' response, and
\* creates no user and leaves the invites unchanged.
C9_UsedInviteRejected ==
    [][\A r \in 1..NumRequests :
          (/\ reqs[r].pc = "idle" /\ reqs'[r].pc # "idle"
           /\ \E i \in 1..Len(invites) :
                 invites[i].token = reqs'[r].token /\ invites[i].is_used)
          => /\ reqs'[r].status = 400
             /\ reqs'[r].detail = "Invalid or used invite token"
             /\ users' = users
             /\ invites' = invites]_vars

----------------------------------------------------------------------------
(* Properties of the tokens *)

\* a claims bundle that carries ids (numbers or non-empty strings), an
\* email and a boolean admin flag
CarriesClaims(c) ==
    /\ c.user_id.kind \in {"int", "str"} /\ PyStrOf(c.user_id).s # ""
    /\ c.branch_id.kind \in {"int", "str"} /\ PyStrOf(c.branch_id).s # ""
    /\ c.email.kind = "str" /\ c.email.s # ""
    /\ c.is_admin.kind = "bool"

\* C10: for every claims bundle with user_id, email, branch_id and
\* is_admin, verify_token of the access token issued for it, before the
\* token's expiry and checked as "access", returns the same email and
\* is_admin, and user_id and branch_id as the string form of the issued ids.
C10_AccessRoundTrip ==
    [][(/\ tok' = tok /\ now' = now
        /\ tok = [CreateAccessToken(tokIn) EXCEPT !.exp = tok.exp]
        /\ now <= tok.exp
        /\ tokOut'.expected = "access"
        /\ CarriesClaims(tokIn))
       => tokOut' = [kind |-> "claims", expected |-> "access",
                     user_id |-> PyStrOf(tokIn.user_id).s,
                     email |-> tokIn.email.s,
                     branch_id |-> PyStrOf(tokIn.branch_id).s,
                     is_admin |-> tokIn.is_admin = PyBool(TRUE)]]_vars

\* C10 witness: an access token issued for numeric ids was verified some
\* time after it was issued and the ids came back as strings
C10_Witness ==
    /\ tokIn.user_id = PyInt(7) /\ tokIn.branch_id = PyInt(0)
    /\ tokIn.is_admin = PyBool(TRUE)
    /\ tok.type = "access" /\ now > tok.exp - ACCESS_TOKEN_EXPIRE_MINUTES
    /\ tokOut.kind = "claims" /\ tokOut.user_id = "7"
    /\ tokOut.branch_id = "0" /\ tokOut.is_admin

\* the step is a verify_token or verify_reset_token call on the held token
TokenVerifyStep == tok' = tok /\ now' = now /\ tokOut' # tokOut

\* C11: a token of one kind is never accepted as another: verify_token
\* returns None whenever the token's type claim differs from the expected
\* type, and verify_reset_token returns None for access and refresh tokens.
C11_NoTypeConfusion ==
    [][(TokenVerifyStep /\ tok.type # tokOut'.expected)
       => tokOut' = Null(tokOut'.expected)]_vars

\* C11 witness: a reset token, signed and not expired, was checked as an
\* access token and None came back
C11_Witness ==
    /\ tok.type = "password_reset" /\ ~DecodeFails(tok)
    /\ tok.sub = PyStr("a@x.com")
    /\ tokOut = Null("access")

\* C12: verify_token returns the same result, None, for an expired token,
\* a malformed token, a token of the wrong type and a token with a bad
\* signature, and raises nothing to its caller.
C12_UniformNull ==
    [][(/\ TokenVerifyStep
        /\ tokOut'.expected \in TokenTypes
        /\ \/ tok = Malformed
           \/ tok.key = FORGED_KEY
           \/ tok.exp < now
           \/ tok.type # tokOut'.expected)
       => tokOut' = Null(tokOut'.expected)]_vars

\* C12 witness: an access token carrying every claim, re-signed with another
\* key before its expiry, was checked as an access token and None came back
C12_Witness ==
    /\ tok.key = FORGED_KEY /\ tok.type = "access" /\ now <= tok.exp
    /\ CarriesClaims(tokIn)
    /\ tok = [CreateAccessToken(tokIn) EXCEPT !.key = FORGED_KEY,
                                              !.exp = tok.exp]
    /\ tokOut = Null("access")

----------------------------------------------------------------------------
(* Properties of the session resolver *)

\* the step answers a request of client c that went through get_current_user
ResolvedFor(c) ==
    /\ now' = now /\ sess' = sess
    /\ resp'.client = c /\ resp'.op \in {"me", "toggle", "make_admin"}

\* the step answers a request of client c that went through
\* get_current_admin_user
AdminGatedFor(c) ==
    /\ now' = now /\ sess' = sess
    /\ resp'.client = c /\ resp'.op \in {"toggle", "make_admin"}

\* the users an access token was issued to
TokenUsers(t) == {u \in RowIds(users) : PyStrOf(PyInt(u)) = t.user_id}

\* C13: while a user's is_active flag is false, every request that presents
\* an unexpired access token of that user is answered 401; and
\* get_current_user returns a user only if the row with the token's user_id
\* has is_active true.
C13_DeactivatedRejected ==
    [][\A c \in 1..NumClients :
          ResolvedFor(c) =>
             /\ (/\ sess[c].type = "access" /\ ~DecodeFails(sess[c])
                 /\ \E u \in TokenUsers(sess[c]) : ~users[u].is_active)
                => (resp'.status = 401 /\ resp'.user = 0)
             /\ resp'.user # 0
                => /\ resp'.user \in TokenUsers(sess[c])
                   /\ users[resp'.user].is_active]_vars

\* C13 witness: a request that presented the unexpired access token of a
\* deactivated user was answered 401
C13_Witness ==
    /\ resp.op = "me" /\ resp.status = 401
    /\ sess[resp.client].type = "access" /\ ~DecodeFails(sess[resp.client])
    /\ \E u \in TokenUsers(sess[resp.client]) : ~users[u].is_active

\* C14: an admin-gated request of an authenticated user passes the gate
\* exactly when is_admin of the user's row in the table is true at the time
\* of the request, whatever the is_admin claim of the token; otherwise it is
\* answered 403, and 401 only when it is not authenticated.
C14_AdminByStore ==
    [][\A c \in 1..NumClients :
          AdminGatedFor(c) =>
             /\ resp'.user # 0
                => /\ resp'.status # 401
                   /\ resp'.status = 403 <=> ~users[resp'.user].is_admin
             /\ resp'.user = 0 => resp'.status = 401]_vars

\* C14 witness: an admin-gated request passed with a token whose is_admin
\* claim is false, issued before the user was made admin
C14_Witness ==
    /\ resp.op \in {"toggle", "make_admin"} /\ resp.status = 200
    /\ sess[resp.client].is_admin = PyBool(FALSE)
    /\ users[resp.user].is_admin

\* C15: the 401 responses of get_current_user carry the same message whether
\* the header is missing, the token is invalid or expired, or the account is
\* deactivated or missing.
C15_UniformUnauthenticated ==
    [][(/\ resp.status = 401 /\ resp.op \in {"me", "toggle", "make_admin"}
        /\ resp'.status = 401 /\ resp'.op \in {"me", "toggle", "make_admin"})
       => resp'.detail = resp.detail]_vars

----------------------------------------------------------------------------
(* Properties of password recovery *)

\* C16: for every email and every state of the tables, a locked row of the
\* email within its cooldown included, forgot-password answers success, and
\* the response for an unregistered email has the shape of the response for
\* a registered one.
C16_ForgotAlwaysSucceeds ==
    [][(now' = now /\ resp'.op = "forgot") => resp'.status = 200]_vars

----------------------------------------------------------------------------
(* Properties of the attempt counter and of the flags of a record *)

\* C21: on every OTP record, under any sequence or interleaving of generate
\* and verify calls, the stored attempts never decreases and never exceeds
\* OTP_MAX_ATTEMPTS + 1.
C21_AttemptsMonotoneBounded ==
    [][\A i \in RowIds(otps) :
          /\ otps'[i].attempts >= otps[i].attempts
          /\ otps'[i].attempts <= OTP_MAX_ATTEMPTS + 1]_vars

\* C22: a verify_otp call with a wrong code, evaluated against an unlocked
\* record whose expires_at has not passed and whose attempts is below
\* OTP_MAX_ATTEMPTS, stores attempts + 1, returns failure and reports
\* OTP_MAX_ATTEMPTS minus the new attempts as the attempts left.
C22_WrongCodeCounted ==
    [][VerifyRowStep
       => LET i == last'.sel IN
          (/\ last'.code # otps[i].otp
           /\ ~otps[i].is_locked
           /\ now <= otps[i].expires_at
           /\ otps[i].attempts < OTP_MAX_ATTEMPTS)
          => /\ otps'[i].attempts = otps[i].attempts + 1
             /\ last'.outcome = "invalid"
             /\ last'.remaining = OTP_MAX_ATTEMPTS - otps'[i].attempts]_vars

\* the first wrong code for a record has been counted: 2 attempts left
C22_Witness ==
    /\ last.op = "verify" /\ last.outcome = "invalid" /\ last.remaining = 2
    /\ last.sel # 0
    /\ otps[last.sel].attempts = 1
    /\ ~otps[last.sel].is_locked
    /\ last.code # otps[last.sel].otp

\* C23: is_used changes only from false to true and only in a verify_otp
\* call whose code equals the record's code; a record with is_used true is
\* changed in no field by any later generate_otp or verify_otp call.
C23_UsedIsFinal ==
    [][\A i \in RowIds(otps) :
          /\ otps[i].is_used => otps'[i] = otps[i]
          /\ otps'[i].is_used # otps[i].is_used
             => /\ ~otps[i].is_used
                /\ VerifyStep
                /\ last'.sel = i
                /\ last'.code = otps[i].otp]_vars

\* a record was used and a generate_otp call has inserted a row since
C23_Witness ==
    /\ Len(otps) = 2
    /\ otps[1].is_used
    /\ ~otps[1].is_expired
    /\ last.op = "generate" /\ last.outcome = "fresh" /\ last.sel = 2

\* C24: when generate_otp inserts a new record for an email, every other
\* unused record of that email, of any purpose, is marked expired afterwards.
C24_InsertExpiresOthers ==
    [][(GenerateStep /\ last'.outcome = "fresh")
       => \A i \in RowIds(otps') \ {last'.sel} :
             (otps'[i].email = otps'[last'.sel].email /\ ~otps'[i].is_used)
             => otps'[i].is_expired]_vars

\* a row was inserted next to a row of the other purpose that was live
C24_Witness ==
    /\ Len(otps) = 2
    /\ last.op = "generate" /\ last.outcome = "fresh" /\ last.sel = 2
    /\ otps[1].purpose # otps[2].purpose
    /\ ~otps[1].is_used
    /\ otps[1].is_expired
    /\ now <= otps[1].expires_at - OTP_REUSE_MINUTES - 1

----------------------------------------------------------------------------
(* Properties of email delivery *)

\* a queued email has been handed to the SMTP server, or the attempt failed
DeliveryStep == mail.state = "queued" /\ mail'.state \in {"sent", "failed"}

\* C25: the response of send-otp, forgot-password and send-invite, and the
\* stored OTP and invite records, are the same whether the delivery of the
\* email succeeds or fails.
C25_DeliveryChangesNothing ==
    [][DeliveryStep
       => /\ resp' = resp
          /\ otps' = otps
          /\ invites' = invites]_vars

\* the email of a request failed to be delivered after the request was
\* answered with its success message
C25_Witness ==
    /\ mail.state = "failed"
    /\ resp.status = 200
    /\ \/ /\ resp.op = "send_otp" /\ resp.detail = "OTP sent successfully"
          /\ \E i \in RowIds(otps) : otps[i].otp = mail.body
       \/ /\ resp.op = "forgot"
          /\ resp.detail = "Reset code sent to your email."
       \/ /\ resp.op = "send_invite"
          /\ \E i \in RowIds(invites) : invites[i].token = mail.body

----------------------------------------------------------------------------
(* Properties of expired invites *)

\* request r has looked up the invite of its token and found row i
SelectedBy(r, i) ==
    reqs[r].pc = "idle" /\ reqs'[r].pc # "idle" /\ reqs'[r].inv = i

\* C26: an invite-signup request whose invite has an expires_at (creation
\* plus 7 days) that has passed is rejected, creates no user and leaves the
\* invite's is_used false.
C26_ExpiredInviteRejected ==
    [][\A r \in 1..NumRequests, i \in RowIds(invites) :
          (SelectedBy(r, i) /\ now > invites[i].expires_at)
          => /\ reqs'[r].pc = "done"
             /\ reqs'[r].status >= 400
             /\ users' = users
             /\ invites' = invites
             /\ ~invites'[i].is_used]_vars

\* a request was rejected for an invite sent more than 7 days before, and
\* the invite is still unused
C26_Witness ==
    \E r \in 1..NumRequests :
        /\ reqs[r].pc = "done"
        /\ reqs[r].inv # 0
        /\ reqs[r].status >= 400
        /\ now > invites[reqs[r].inv].expires_at
        /\ invites[reqs[r].inv].expires_at
              = INVITE_EXPIRE_DAYS * DAY_MINUTES
        /\ ~invites[reqs[r].inv].is_used

----------------------------------------------------------------------------
(* Properties of overlapping verify_otp calls *)

\* the calls that returned success for row i
Succeeded(i) ==
    {v \in 1..NumVerifies : vers[v].row = i /\ vers[v].outcome = "success"}

\* C27: under every interleaving of verify_otp calls that submit the
\* correct code for the same live record, at most one returns success.
C27_OneSuccessPerRecord ==
    \A i \in RowIds(otps) : Cardinality(Succeeded(i)) <= 1

\* the calls that have compared their code with the code of row i
Compared(i) ==
    {v \in 1..NumVerifies :
        /\ vers[v].row = i
        /\ \/ vers[v].pc = "use"
           \/ vers[v].outcome \in {"invalid", "success"}}

\* C28: for any one OTP record, under every interleaving of verify_otp
\* calls, at most OTP_MAX_ATTEMPTS calls have their code compared with the
\* stored code.
C28_ComparisonsBounded ==
    \A i \in RowIds(otps) : Cardinality(Compared(i)) <= OTP_MAX_ATTEMPTS

----------------------------------------------------------------------------
(* Properties of the reset token *)

\* a reset token is minted in this step
Minted == tok' # tok

\* the password of user u is changed in this step
PasswordChanged(u) == users'[u].password_hash # users[u].password_hash

\* C29: a reset token for an email is minted only by a verify-otp request
\* that succeeded for that email with purpose password_reset, and
\* reset-password changes a password only when it is given such a token.
C29_ResetNeedsVerifiedOtp ==
    [][/\ Minted
          => /\ resp'.op = "verify_otp"
             /\ last'.op = "verify" /\ last'.outcome = "success"
             /\ last'.purpose = "password_reset"
             /\ tok'.type = "password_reset"
             /\ otps[last'.sel].email = NormalizeEmail(tok'.sub.s)
             /\ otps[last'.sel].purpose = "password_reset"
             /\ last'.code = otps[last'.sel].otp
       /\ \A u \in RowIds(users) :
             PasswordChanged(u)
             => /\ resp'.op = "reset_password"
                /\ tok.type = "password_reset"
                /\ tok.key = APP_SECRET_KEY
                /\ tok.exp >= now
                /\ tok.sub.s = users[u].email]_vars

\* the password was changed with the token of a verified reset code
C29_Witness ==
    /\ resp.op = "reset_password" /\ resp.status = 200
    /\ users[1].password_hash = GetPasswordHash("new")
    /\ tok.type = "password_reset"
    /\ \E i \in RowIds(otps) :
          /\ otps[i].is_used /\ otps[i].purpose = "password_reset"
          /\ otps[i].email = tok.sub.s

----------------------------------------------------------------------------
(* Properties of the refresh token *)

\* C30: for every user id, verify_token of the refresh token issued for
\* {user_id}, before the token's expiry and checked as "refresh", returns
\* claims that carry that user id.
C30_RefreshRoundTrip ==
    [][(/\ tok' = tok /\ now' = now
        /\ tok = [CreateRefreshToken(tokIn) EXCEPT !.exp = tok.exp]
        /\ now <= tok.exp
        /\ tokOut'.expected = "refresh"
        /\ tokIn.user_id.kind \in {"int", "str"}
        /\ PyStrOf(tokIn.user_id).s # "")
       => /\ tokOut'.kind = "claims"
          /\ tokOut'.user_id = PyStrOf(tokIn.user_id).s]_vars

====
